---- MODULE Spec2Model ----
(***************************************************************************)
(* Model of libvmaf/src/feature/motion.c (sequential motion scan and the   *)
(* bounded motion-gap search of motion()), of libvmaf/src/model.c (the     *)
(* predictor asset loader) and of libvmaf/tools/cli_parse.c (the command   *)
(* line and the token string of a model).                                  *)
(*                                                                         *)
(* Scores are kept as the exact integer numerator `accum`; the code        *)
(* divides it by the constant w * h, which preserves every comparison.     *)
(* A plane is the row-major tuple of its w * h pixels; the padding that    *)
(* the row stride adds is never read by the code and is left out.          *)
(***************************************************************************)
EXTENDS Integers, Sequences, FiniteSets, TLC

(* ------------------------------ bounds --------------------------------- *)
MaxFrames == 16        \* longest frame source
MaxFreeFrames == 3     \* sources up to this length carry arbitrary planes
MaxFps == 2            \* largest frames-per-second value
MaxFailSeek == 1       \* only the first MaxFailSeek seeks of the search may fail
MaxFeatures == 2       \* largest feature table of a manifest
MaxStuck == 3          \* pairs scored before a search in an unknown mode is cut off
MaxWideFrames == 2     \* longest frame source of the runs on arbitrary inputs
MaxOpts == 4           \* most options on a command line
MaxArgLen == 5         \* longest argument of -m, in words and delimiters
(* The length of the arrays of CLISettings; cli_parse.h sets it, the runs  *)
(* use a small one.                                                        *)
CLI_SETTINGS_STATIC_ARRAY_LEN == 2

FRAME_W == 2           \* width of the frames of the runs
FRAME_H == 2           \* height of the frames of the runs

(* --------------------------- program constants ------------------------- *)
INT_MAX == 2147483647
SizeofFloat == 4
MAX_ALIGN == 32
NULL == "NULL"
NO_CELLS == <<>>      \* the null int pointer handed to compute_motion
Uninit == <<>>

VARIABLES
    \* ---- inputs of motion() ----
    w, h,                \* frame dimensions
    frames,              \* the frame source: tuple of planes, frame k at k + 1
    fps, mode,           \* userData->fps, userData->mode
    motion_map_filen,    \* userData->motion_map_filen: NULL or a file
    stray,               \* what a read past the end of a plane finds, per operand
    \* ---- locals of motion() ----
    pc,                  \* position in motion()
    ret, score,
    global_frm_idx,
    srcpos,              \* read position of the sequential frame source
    buf,                 \* contents of the planes
    alloced, freed,      \* per buffer: pointer non-null, number of releases
    cells_to_compare, valid_coord_index,
    min_frame_gap, max_frame_gap, b_end,
    min, min_lower_idx, min_upper_idx,
    b_idx, c_idx, c_end,
    \* ---- observations ----
    out,                 \* result lines printed by the gap search
    seq_scores,          \* score of each sequential iteration
    evals,               \* pairs scored by the gap search: <<b, c, score>>
    seeks,               \* number of seeks issued by the gap search
    err_mark             \* <<Len(evals), Len(out)>> at the first failed seek

mvars == <<w, h, frames, fps, mode, motion_map_filen, stray, pc, ret, score,
           global_frm_idx, srcpos, buf, alloced, freed, cells_to_compare,
           valid_coord_index, min_frame_gap, max_frame_gap, b_end, min,
           min_lower_idx, min_upper_idx, b_idx, c_idx, c_end, out,
           seq_scores, evals, seeks, err_mark>>

VARIABLES
    \* ---- vmaf_model_load_from_path / vmaf_model_destroy ----
    cfg,                 \* the VmafModelConfig handed to the loader
    svm_files,           \* predictor resources that exist
    manifest,            \* what vmaf_unpickle_model finds at cfg.path
    model,               \* the caller's handle, *model
    m,                   \* the fields of the asset record
    live,                \* resources acquired and not yet released
    acquired,            \* resources in the order of their acquisition
    released,            \* resources in the order of their release
    lpc, lret            \* position of the caller, last return value

lvars == <<cfg, svm_files, manifest, model, m, live, acquired, released,
           lpc, lret>>

VARIABLES
    \* ---- cli_parse ----
    settings,            \* the CLISettings being filled
    argi,                \* number of options getopt_long has returned
    given,               \* how many -m, -f and -i options it has returned
    stored_oob,          \* an entry was stored past the end of its array
    cpc,                 \* position of cli_parse
    exit_status, usage_reason,
    \* ---- parse_model_config called on its own ----
    optarg,              \* the argument of -m
    parsed,              \* the outcome of the call
    ppc

cvars == <<settings, argi, given, stored_oob, cpc, exit_status, usage_reason,
           optarg, parsed, ppc>>

vars == <<mvars, lvars, cvars>>

(* ------------------------------ helpers -------------------------------- *)
Abs(x) == IF x < 0 THEN -x ELSE x
Clamp(i, n) == IF i < 0 THEN 0 ELSE IF i >= n THEN n - 1 ELSE i

RECURSIVE SumTo(_, _)
SumTo(f, n) == IF n = 0 THEN 0 ELSE f[n] + SumTo(f, n - 1)

ALIGN_FLOOR(x) == x - (x % MAX_ALIGN)
ALIGN_CEIL(x) == x + (IF x % MAX_ALIGN # 0 THEN MAX_ALIGN - (x % MAX_ALIGN) ELSE 0)

PrimaryBufs == <<"ref_buf", "prev_blur_buf", "blur_buf", "next_ref_buf",
                 "next_blur_buf", "temp_buf">>
GapBufs == <<"c_frame_buf", "c_blur_buf", "b_frame_buf", "b_blur_buf">>
BufNames == {PrimaryBufs[i] : i \in 1..6} \cup {GapBufs[i] : i \in 1..4}

(* Pixel (i, j) of a plane of width FRAME_W. *)
Px(p, i, j) == p[i * FRAME_W + j + 1]
ConstPlane(v) == [q \in 1..(FRAME_W * FRAME_H) |-> v]

(* offset_image and convolution_f32_c live outside this directory; they    *)
(* are taken from the design: a constant bias, then a 5-tap separable      *)
(* filter, horizontal pass then vertical pass, edges clamped.              *)
OPT_RANGE_PIXEL_OFFSET == -128
FILTER_5 == <<1, 4, 6, 4, 1>>

offset_image(p) == [q \in 1..(FRAME_W * FRAME_H) |-> p[q] + OPT_RANGE_PIXEL_OFFSET]

convolution_f32_c(p) ==
    LET hz == [q \in 1..(FRAME_W * FRAME_H) |->
                 LET i == (q - 1) \div FRAME_W
                     j == (q - 1) % FRAME_W
                 IN SumTo([t \in 1..5 |->
                        FILTER_5[t] * Px(p, i, Clamp(j + t - 3, FRAME_W))], 5)]
    IN [q \in 1..(FRAME_W * FRAME_H) |->
          LET i == (q - 1) \div FRAME_W
              j == (q - 1) % FRAME_W
          IN SumTo([t \in 1..5 |->
                 FILTER_5[t] * Px(hz, Clamp(i + t - 3, FRAME_H), j)], 5)]

(* motion.c:51-80, numerator of the mean absolute difference. *)
vmaf_image_sad_c(img1, img2, width, height) ==
    SumTo([q \in 1..(width * height) |->
             Abs(Px(img1, (q - 1) \div width, (q - 1) % width)
               - Px(img2, (q - 1) \div width, (q - 1) % width))],
          width * height)

(* motion.c:82-94; a cell index of width * height or more addresses a row  *)
(* past the end of both planes, and the read finds whatever lies there.    *)
InPlane(cell, width, height) == 0 <= cell /\ cell < width * height
StrayCells(cells, array_len, width, height) ==
    \E q \in 1..array_len : ~InPlane(cells[q], width, height)
CellPx(img, cell, width, height, beyond) ==
    IF InPlane(cell, width, height) THEN Px(img, cell \div width, cell % width)
    ELSE beyond
vmaf_image_selected_cells(img1, img2, width, height, cells, array_len) ==
    SumTo([cell_idx \in 1..array_len |->
             Abs(CellPx(img1, cells[cell_idx], width, height, stray[1])
               - CellPx(img2, cells[cell_idx], width, height, stray[2]))],
          array_len)

(* motion.c:109-135; returns <<return value, score>>. *)
compute_motion(ref, dis, cw, ch, ref_stride, dis_stride, old_score, pass, cells) ==
    IF ref_stride % SizeofFloat # 0 \/ dis_stride % SizeofFloat # 0
    THEN <<1, old_score>>
    ELSE IF cells = NO_CELLS
         THEN <<0, vmaf_image_sad_c(ref, dis, cw, ch)>>
         ELSE <<0, vmaf_image_selected_cells(ref, dis, cw, ch, cells, pass)>>

(* ------------------------ motion-cell restriction file ----------------- *)
(* The files the runs may name; a file is its text, or ENOENT when fopen   *)
(* fails on it.                                                            *)
ENOENT == "ENOENT"
FileNames == {"missing.csv", "one.csv", "row.csv", "long.csv"}
RECURSIVE Commas(_)
Commas(n) == IF n = 0 THEN <<>> ELSE Append(Commas(n - 1), ",")
(* Files that do not hold a line of cell indices of the frame: an index    *)
(* past the last cell, no character at all, more separators than cells.    *)
OddFileNames == {"far.csv", "empty.csv", "commas.csv"}
FileText(name) ==
    CASE name = "one.csv"  -> <<"0">>
      [] name = "row.csv"  -> <<"0", ",", "1">>
      [] name = "long.csv" -> <<"2", ",", "3", ",", "1", "\n">>
      [] name = "far.csv"  -> <<"9", "9">>
      [] name = "empty.csv" -> <<>>
      [] name = "commas.csv" -> Commas(FRAME_W * FRAME_H + 1)
      [] OTHER             -> ENOENT

Digits == <<"0", "1", "2", "3", "4", "5", "6", "7", "8", "9">>
IsDigit(c) == \E d \in 1..10 : Digits[d] = c
DigitVal(c) == (CHOOSE d \in 1..10 : Digits[d] = c) - 1

(* fgets(buffer, size, f): at most size - 1 characters, through a newline. *)
RECURSIVE fgets(_, _)
fgets(text, size) ==
    IF size <= 1 \/ text = <<>> THEN <<>>
    ELSE IF Head(text) = "\n" THEN <<"\n">>
    ELSE <<Head(text)>> \o fgets(Tail(text), size - 1)

(* strsep(&string, ","): the tokens between commas, empty ones included. *)
RECURSIVE strsep(_, _)
strsep(string, tok) ==
    IF string = <<>> THEN <<tok>>
    ELSE IF Head(string) = "," THEN <<tok>> \o strsep(Tail(string), <<>>)
    ELSE strsep(Tail(string), Append(tok, Head(string)))

(* atoi on an unsigned token: the leading digits, 0 when there are none. *)
RECURSIVE atoi(_, _)
atoi(token, acc) ==
    IF token = <<>> \/ ~IsDigit(Head(token)) THEN acc
    ELSE atoi(Tail(token), 10 * acc + DigitVal(Head(token)))

(* motion.c:434-436: fgets returns NULL on a file with no character, and   *)
(* strdup is called with that pointer.                                     *)
NullLine(filen) == IF FileText(filen) = ENOENT THEN FALSE ELSE Len(FileText(filen)) = 0

(* motion.c:427-445; returns <<valid_coord_index, cells_to_compare>>, the  *)
(* array being zero-filled by the caller (motion.c:288).                   *)
populate_cells_to_compare(filen, size) ==
    IF FileText(filen) = ENOENT \/ NullLine(filen)
    THEN <<0, [q \in 1..size |-> 0]>>
    ELSE LET toks == strsep(fgets(FileText(filen), size), <<>>)
         IN <<Len(toks),
              [q \in 1..size |-> IF q <= Len(toks) THEN atoi(toks[q], 0) ELSE 0]>>

(* ------------------------------ frame sources -------------------------- *)
Gen(id, k) ==
    CASE id = 0 -> k
      [] id = 1 -> 0
      [] id = 2 -> (k * k) % 5
      [] id = 3 -> IF k < 3 THEN 9 - 3 * k ELSE k % 4
      [] id = 4 -> k % 15
      [] OTHER  -> 0
GenPairs == {<<0, 0>>, <<3, 2>>, <<4, 4>>}
(* Row 0 of frame k follows generator a, row 1 generator b. *)
GenPlane(a, b, k) ==
    [q \in 1..(FRAME_W * FRAME_H) |-> IF q <= FRAME_W THEN Gen(a, k) ELSE Gen(b, k)]
FreePlanes ==
    {ConstPlane(0),
     [q \in 1..(FRAME_W * FRAME_H) |-> IF q = 1 THEN 1 ELSE 0],
     [q \in 1..(FRAME_W * FRAME_H) |-> IF q > FRAME_W THEN 1 ELSE 0]}
FrameSources ==
    UNION {[1..n -> FreePlanes] : n \in 0..MaxFreeFrames}
    \cup {[k \in 1..n |-> GenPlane(g[1], g[2], k - 1)] :
             n \in (MaxFreeFrames + 1)..MaxFrames, g \in GenPairs}
GarbagePlanes == {ConstPlane(0), ConstPlane(7)}

Dims == {<<FRAME_W, FRAME_H>>, <<0, FRAME_H>>, <<FRAME_W, -1>>}
ModeVals == {"ALL_FRAMES", "ALL_LOCAL_FRAMES"}

(* MIN_GAP and FRAME_INDEX_OFFSET are 1.5, kept as the ratio 3 / 2; the     *)
(* product is truncated when it is stored in an int.                       *)
MIN_GAP_NUM == 3
MIN_GAP_DEN == 2
MAX_GAP == 15
FRAME_INDEX_OFFSET_NUM == 3
FRAME_INDEX_OFFSET_DEN == 2
TruncMul_Early(num, den, x) == num * (x \div den)
TruncMul(num, den, x) == (num * x) \div den

(* motion.c:321-324 *)
MinFrameGap(f) == TruncMul(MIN_GAP_NUM, MIN_GAP_DEN, f)
MaxFrameGap(f) == MAX_GAP * f
BEnd(g, mingap) == g - mingap
(* motion.c:343-345: the result before any pair is scored. *)
NO_MIN == -1
InitUpper_Count(g) == g
InitUpper(g) == g - 1

(* -------------------------------- motion() ----------------------------- *)
(* The state at the call of motion(): valid or rejected dimensions, a      *)
(* frame source, a whole number of frames per second (motion() accepts     *)
(* userData->fps as it comes, 0 included), a search mode and an optional   *)
(* restriction file.                                                       *)
MotionCall(sources, modes, files, strays) ==
    /\ \E d \in Dims : w = d[1] /\ h = d[2]
    /\ frames \in sources
    /\ fps \in 0..MaxFps
    /\ mode \in modes
    /\ motion_map_filen \in {NULL} \cup files
    /\ stray \in strays
    /\ pc = "entry"
    /\ ret = 1
    /\ score = 0
    /\ global_frm_idx = 0
    /\ srcpos = 0
    /\ buf = [b \in BufNames |-> Uninit]
    /\ alloced = [b \in BufNames |-> FALSE]
    /\ freed = [b \in BufNames |-> 0]
    /\ cells_to_compare = NO_CELLS
    /\ valid_coord_index = 0
    /\ min_frame_gap = 0 /\ max_frame_gap = 0 /\ b_end = 0
    /\ min = NO_MIN /\ min_lower_idx = 0 /\ min_upper_idx = 0
    /\ b_idx = 0 /\ c_idx = 0 /\ c_end = 0
    /\ out = <<>> /\ seq_scores = <<>> /\ evals = <<>>
    /\ seeks = 0 /\ err_mark = <<>>

(* Calls with a known mode and a restriction file that is absent or holds  *)
(* cell indices of the frame; no read leaves a plane.                      *)
InitMotion == MotionCall(FrameSources, ModeVals, FileNames, {<<0, 0>>})

(* Calls with any mode string and any restriction file, on short sources.  *)
(* motion.c:283-284 names "SUBSEQUENT_FRAMES" as a mode the search is not  *)
(* written for.                                                            *)
InitWide ==
    MotionCall(UNION {[1..n -> FreePlanes] : n \in 0..MaxWideFrames},
               ModeVals \cup {"SUBSEQUENT_FRAMES"},
               FileNames \cup OddFileNames,
               {<<0, 0>>, <<0, 7>>})

inputs == <<w, h, frames, fps, mode, motion_map_filen, stray>>
gapvars == <<cells_to_compare, valid_coord_index, min_frame_gap, max_frame_gap,
             b_end, min, min_lower_idx, min_upper_idx, b_idx, c_idx, c_end,
             out, evals, seeks, err_mark>>

stride == ALIGN_CEIL(w * SizeofFloat)

(* aligned_free(p): releases p unless it is null. *)
aligned_free(fr, al, names) ==
    [b \in BufNames |-> IF b \in names /\ al[b] THEN fr[b] + 1 ELSE fr[b]]

(* The first n buffers of a list are allocated. *)
Allocate(al, list, n) ==
    [b \in BufNames |-> al[b] \/ \E i \in 1..n : list[i] = b]

(* motion.c:157-196: dimension checks, then the six planes; k is the       *)
(* allocation that fails, 0 when none does. The test of line 161 compares  *)
(* an int with SIZE_MAX / stride, which no int reaches with a 64-bit       *)
(* size_t, so it never rejects.                                            *)
Enter ==
    /\ pc = "entry"
    /\ IF w <= 0 \/ h <= 0 \/ w > ALIGN_FLOOR(INT_MAX) \div SizeofFloat
       THEN /\ pc' = "fail_or_end"
            /\ UNCHANGED alloced
       ELSE \E k \in 0..6 :
              /\ alloced' = Allocate(alloced, PrimaryBufs, IF k = 0 THEN 6 ELSE k - 1)
              /\ pc' = IF k = 0 THEN "scan" ELSE "fail_or_end"
    /\ UNCHANGED <<lvars, cvars, inputs, ret, score, global_frm_idx, srcpos, buf, freed,
                   gapvars, seq_scores>>

(* Results read_noref_frame can give for the frame at position pos. *)
ReadResults(pos) == {1} \cup (IF pos < Len(frames) THEN {0} ELSE {2})
Blur(p) == convolution_f32_c(offset_image(p))

(* motion.c:258-262: the planes of the frame just scored become the        *)
(* previous ones, the planes read ahead the current ones.                  *)
Rotate_Self(b) ==
    [b EXCEPT !["prev_blur_buf"] = b["next_blur_buf"],
              !["ref_buf"] = b["next_ref_buf"],
              !["blur_buf"] = b["next_blur_buf"]]
Rotate(b) ==
    [b EXCEPT !["prev_blur_buf"] = b["blur_buf"],
              !["ref_buf"] = b["next_ref_buf"],
              !["blur_buf"] = b["next_blur_buf"]]

(* motion.c:198-266: one iteration of the sequential scan. r1 is the       *)
(* result of the read of frame 0 (taken only in the first iteration), r2   *)
(* the result of the read-ahead.                                           *)
ScanIter ==
    /\ pc = "scan"
    /\ LET frm_idx == global_frm_idx
       IN
       /\ global_frm_idx' = global_frm_idx + 1
       /\ \E r1 \in (IF frm_idx = 0 THEN ReadResults(srcpos) ELSE {0}) :
          IF r1 = 1 THEN
              /\ ret' = 1 /\ pc' = "fail_or_end"
              /\ UNCHANGED <<score, srcpos, buf, seq_scores>>
          ELSE IF r1 = 2 THEN
              /\ ret' = 2 /\ pc' = "gap"
              /\ UNCHANGED <<score, srcpos, buf, seq_scores>>
          ELSE
            LET pos1 == IF frm_idx = 0 THEN srcpos + 1 ELSE srcpos
                buf1 == IF frm_idx = 0
                        THEN [buf EXCEPT !["ref_buf"] = offset_image(frames[srcpos + 1]),
                                         !["blur_buf"] = Blur(frames[srcpos + 1])]
                        ELSE buf
            IN \E r2 \in ReadResults(pos1) :
               IF r2 = 1 THEN
                   /\ ret' = 1 /\ pc' = "fail_or_end"
                   /\ srcpos' = pos1 /\ buf' = buf1
                   /\ UNCHANGED <<score, seq_scores>>
               ELSE
                 LET next_frame_read == (r2 # 2)
                     buf2 == IF next_frame_read
                             THEN [buf1 EXCEPT !["next_ref_buf"] = offset_image(frames[pos1 + 1]),
                                               !["next_blur_buf"] = Blur(frames[pos1 + 1])]
                             ELSE buf1
                     computed == frm_idx # 0 /\ motion_map_filen = NULL
                 IN
                 \E cm \in {IF computed
                            THEN compute_motion(buf2["prev_blur_buf"], buf2["blur_buf"],
                                                w, h, stride, stride, score, 0, NO_CELLS)
                            ELSE <<r2, IF frm_idx = 0 THEN 0 ELSE score>>} :
                 /\ srcpos' = IF next_frame_read THEN pos1 + 1 ELSE pos1
                 /\ ret' = cm[1]
                 /\ score' = cm[2]
                 /\ IF computed /\ cm[1] # 0
                    THEN /\ pc' = "fail_or_end"
                         /\ buf' = buf2
                         /\ UNCHANGED seq_scores
                    ELSE /\ buf' = Rotate(buf2)
                         /\ seq_scores' = Append(seq_scores, cm[2])
                         /\ pc' = IF next_frame_read THEN "scan" ELSE "gap"
    /\ UNCHANGED <<lvars, cvars, inputs, alloced, freed, gapvars>>


(* motion.c:282-345: the restriction file, the four planes of the search   *)
(* (k is the allocation that fails, 0 when none does) and the initial      *)
(* result. strdup of a null pointer is undefined: the process is killed    *)
(* (k = -1) or strdup returns null and no cell is stored.                  *)
GapSetup ==
    /\ pc = "gap"
    /\ IF motion_map_filen = NULL
       THEN /\ pc' = "fail_or_end"
            /\ UNCHANGED <<alloced, gapvars>>
       ELSE LET pop == populate_cells_to_compare(motion_map_filen, w * h)
            IN
            /\ valid_coord_index' = pop[1]
            /\ cells_to_compare' = pop[2]
            /\ \E k \in (IF NullLine(motion_map_filen) THEN -1..4 ELSE 0..4) :
                 /\ alloced' = Allocate(alloced, GapBufs,
                                        IF k = 0 THEN 4 ELSE IF k < 0 THEN 0 ELSE k - 1)
                 /\ IF k # 0
                    THEN /\ pc' = IF k < 0 THEN "killed" ELSE "fail_or_end"
                         /\ UNCHANGED <<min_frame_gap, max_frame_gap, b_end, min,
                                        min_lower_idx, min_upper_idx, b_idx>>
                    ELSE /\ pc' = "outer"
                         /\ min_frame_gap' = MinFrameGap(fps)
                         /\ max_frame_gap' = MaxFrameGap(fps)
                         /\ b_end' = BEnd(global_frm_idx, MinFrameGap(fps))
                         /\ min' = NO_MIN
                         /\ min_lower_idx' = 0
                         /\ min_upper_idx' = InitUpper(global_frm_idx)
                         /\ b_idx' = 0
            /\ UNCHANGED <<c_idx, c_end, out, evals, seeks, err_mark>>
    /\ UNCHANGED <<lvars, cvars, inputs, ret, score, global_frm_idx, srcpos, buf, freed,
                   seq_scores>>

(* The byte offset motion() passes for frame idx (motion.c:350, 363) and   *)
(* the frame a source of w x h 4:2:0 frames finds at that offset.          *)
SeekOffset(idx) == TruncMul(FRAME_INDEX_OFFSET_NUM, FRAME_INDEX_OFFSET_DEN, idx * w * h)
FrameAt(offset) == offset \div TruncMul(FRAME_INDEX_OFFSET_NUM, FRAME_INDEX_OFFSET_DEN, w * h)

SeekResults(idx) ==
    (IF seeks < MaxFailSeek THEN {1} ELSE {})
    \cup (IF FrameAt(SeekOffset(idx)) < Len(frames) THEN {0} ELSE {2})

(* What the plane holds after read_noref_frame returned r: the frame, or   *)
(* what it held before; a plane never written holds indeterminate data.    *)
PlaneAfterSeek(r, old, idx) ==
    IF r = 0 THEN {frames[FrameAt(SeekOffset(idx)) + 1]}
    ELSE IF old = Uninit THEN GarbagePlanes ELSE {old}

MarkErr(r) == IF r # 0 /\ err_mark = <<>> THEN <<Len(evals), Len(out)>> ELSE err_mark

(* motion.c:356-360 *)
CStart_NoGap(b, mingap) == b
CStart_Skip(b, mingap) == b + mingap + 1
CStart(b, mingap) == b + mingap
CEnd(b, maxgap, g) == IF b + maxgap < g THEN b + maxgap ELSE g
(* motion.c:372-390: the advance of c_idx, none for an unknown mode. *)
CAdvance_Unit(md, c) == c + 1
CAdvance(md, c) ==
    IF md = "ALL_FRAMES" THEN c + 4
    ELSE IF md = "ALL_LOCAL_FRAMES" THEN c + 1
    ELSE c
(* motion.c:393-397 *)
BAdvance_Coarse(md, b) == b + 4
BAdvance(md, b) == IF md = "ALL_FRAMES" THEN b + 4 ELSE b + 1

(* motion.c:348-360 and 400-413: the test of the outer loop; either frame  *)
(* b is read and blurred and the inner loop is set up, or the search ends  *)
(* with the final line and the release of its four planes.                 *)
OuterStep ==
    /\ pc = "outer"
    /\ IF b_idx < b_end
       THEN \E r \in SeekResults(b_idx) :
            \E raw \in PlaneAfterSeek(r, buf["b_frame_buf"], b_idx) :
              /\ buf' = [buf EXCEPT !["b_frame_buf"] = offset_image(raw),
                                    !["b_blur_buf"] = Blur(raw)]
              /\ seeks' = seeks + 1
              /\ err_mark' = MarkErr(r)
              /\ c_end' = CEnd(b_idx, max_frame_gap, global_frm_idx)
              /\ c_idx' = CStart(b_idx, min_frame_gap)
              /\ pc' = "inner"
              /\ UNCHANGED <<out, freed>>
       ELSE /\ out' = Append(out, <<min, min_lower_idx, min_upper_idx>>)
            /\ freed' = aligned_free(freed, alloced, {GapBufs[i] : i \in 1..4})
            /\ pc' = "fail_or_end"
            /\ UNCHANGED <<buf, seeks, err_mark, c_end, c_idx>>
    /\ UNCHANGED <<lvars, cvars, inputs, ret, score, global_frm_idx, srcpos, alloced,
                   cells_to_compare, valid_coord_index, min_frame_gap,
                   max_frame_gap, b_end, min, min_lower_idx, min_upper_idx,
                   b_idx, evals, seq_scores>>

(* The replacement test of motion.c:373 and 383. *)
Improves_OrEqual(s, best) == best = NO_MIN \/ s <= best
Improves_Greater(s, best) == best = NO_MIN \/ s > best
Improves_FirstOnly(s, best) == best = NO_MIN
Improves(s, best) == best = NO_MIN \/ s < best

(* motion.c:361-397: the test of the inner loop; either frame c is read,   *)
(* blurred and scored against frame b, or the outer index advances. A read *)
(* outside the planes is undefined: it finds stray data or the process is  *)
(* killed. The loop of an unknown mode is followed for MaxStuck pairs.     *)
InnerStep ==
    /\ pc = "inner"
    /\ mode \in ModeVals \/ Len(evals) < MaxStuck
    /\ IF c_idx < c_end
       THEN \E r \in SeekResults(c_idx) :
            \E raw \in PlaneAfterSeek(r, buf["c_frame_buf"], c_idx) :
            \E c_blur \in {Blur(raw)} :
            \E cm \in {compute_motion(buf["b_blur_buf"], c_blur, w, h, stride,
                                      stride, score, valid_coord_index,
                                      cells_to_compare)} :
              LET known == mode \in {"ALL_FRAMES", "ALL_LOCAL_FRAMES"}
                  better == known /\ Improves(cm[2], min)
              IN
              /\ buf' = [buf EXCEPT !["c_frame_buf"] = offset_image(raw),
                                    !["c_blur_buf"] = c_blur]
              /\ seeks' = seeks + 1
              /\ err_mark' = MarkErr(r)
              /\ score' = cm[2]
              /\ evals' = Append(evals, <<b_idx, c_idx, cm[2]>>)
              /\ min' = IF better THEN cm[2] ELSE min
              /\ min_lower_idx' = IF better THEN b_idx ELSE min_lower_idx
              /\ min_upper_idx' = IF better THEN c_idx ELSE min_upper_idx
              /\ out' = IF better THEN Append(out, <<cm[2], b_idx, c_idx>>) ELSE out
              /\ c_idx' = CAdvance(mode, c_idx)
              /\ pc' \in (IF StrayCells(cells_to_compare, valid_coord_index, w, h)
                          THEN {"inner", "killed"} ELSE {"inner"})
              /\ UNCHANGED b_idx
       ELSE /\ b_idx' = BAdvance(mode, b_idx)
            /\ pc' = "outer"
            /\ UNCHANGED <<buf, seeks, err_mark, score, evals, min, min_lower_idx,
                           min_upper_idx, out, c_idx>>
    /\ UNCHANGED <<lvars, cvars, inputs, ret, global_frm_idx, srcpos, alloced, freed,
                   cells_to_compare, valid_coord_index, min_frame_gap,
                   max_frame_gap, b_end, c_end, seq_scores>>

(* motion.c:416-424: the common exit. *)
Cleanup ==
    /\ pc = "fail_or_end"
    /\ freed' = aligned_free(freed, alloced, {PrimaryBufs[i] : i \in 1..6})
    /\ pc' = "done"
    /\ UNCHANGED <<lvars, cvars, inputs, ret, score, global_frm_idx, srcpos, buf, alloced,
                   gapvars, seq_scores>>

(* ------------------------ the predictor asset loader ------------------- *)
ENOMEM == 12
NULL_MODEL == [path |-> NULL, name |-> NULL, svm |-> NULL, n_features |-> 0]
svm_path_suffix == ".model"

(* cli_parse has not been called. *)
NO_USAGE == "none"
(* A VmafModelConfig pointer: cfg says what it points to (NULL, a freed    *)
(* block, or the config c).                                                *)
NO_CONFIG == [path |-> NULL, name |-> NULL, flags |-> 0]
NoResult == [outcome |-> "none", ret |-> 0, cfg |-> NULL, c |-> NO_CONFIG,
             reason |-> NO_USAGE, fault |-> "none"]
CliIdle ==
    /\ settings = <<>> /\ argi = 0 /\ given = <<>> /\ stored_oob = FALSE
    /\ cpc = "idle" /\ exit_status = 0 /\ usage_reason = NO_USAGE
    /\ optarg = <<>> /\ parsed = NoResult /\ ppc = "idle"

LoaderIdle ==
    /\ cfg = [path |-> "", name |-> "", flags |-> 0]
    /\ svm_files = {} /\ manifest = [ok |-> FALSE, n_features |-> 0]
    /\ model = NULL /\ m = NULL_MODEL
    /\ live = {} /\ acquired = <<>> /\ released = <<>>
    /\ lpc = "idle" /\ lret = 0

MotionIdle ==
    /\ w = 0 /\ h = 0 /\ frames = <<>> /\ fps = 1 /\ mode = "ALL_FRAMES"
    /\ motion_map_filen = NULL /\ stray = <<0, 0>>
    /\ pc = "idle" /\ ret = 1 /\ score = 0
    /\ global_frm_idx = 0 /\ srcpos = 0
    /\ buf = [b \in BufNames |-> Uninit]
    /\ alloced = [b \in BufNames |-> FALSE]
    /\ freed = [b \in BufNames |-> 0]
    /\ cells_to_compare = NO_CELLS /\ valid_coord_index = 0
    /\ min_frame_gap = 0 /\ max_frame_gap = 0 /\ b_end = 0
    /\ min = NO_MIN /\ min_lower_idx = 0 /\ min_upper_idx = 0
    /\ b_idx = 0 /\ c_idx = 0 /\ c_end = 0
    /\ out = <<>> /\ seq_scores = <<>> /\ evals = <<>>
    /\ seeks = 0 /\ err_mark = <<>>

ModelPaths == {"vmaf_v0.6.1.pkl", "absent.pkl"}
ModelNames == {"vmaf", ""}
(* The name owned by the i-th feature, i from 1: feature[i - 1].name. *)
FeatureName(i) == "feature[" \o Digits[i] \o "].name"
FeatureNames(n) == {FeatureName(i) : i \in 1..n}

InitLoad ==
    /\ cfg \in [path : ModelPaths, name : ModelNames, flags : 0..7]
    /\ svm_files \in SUBSET {"vmaf_v0.6.1.pkl.model"}
    /\ manifest \in [ok : BOOLEAN, n_features : 0..MaxFeatures]
    /\ model \in {NULL, "stale"}
    /\ m = NULL_MODEL
    /\ live = {} /\ acquired = <<>> /\ released = <<>>
    /\ lpc = "call" /\ lret = 0
    /\ MotionIdle /\ CliIdle

(* svm_load_model(path): the predictor, or NULL when the resource is       *)
(* missing.                                                                *)
svm_load_model(path) == IF path \in svm_files THEN "svm" ELSE NULL

(* free(p) for each pointer of a list, in order; free(NULL) does nothing.  *)
RECURSIVE FreeAll(_, _)
FreeAll(log, ptrs) ==
    IF ptrs = <<>> THEN log
    ELSE FreeAll(IF Head(ptrs) = NULL THEN log ELSE Append(log, Head(ptrs)), Tail(ptrs))

(* model.c:38-47: the rollback labels, each falling through to the next.  *)
free_m == <<"m">>
free_path == <<"path">> \o free_m
free_name == <<"name">> \o free_path
free_svm_Leak == free_name
free_svm == <<"svm">> \o free_name

(* The feature table and the names vmaf_unpickle_model allocates for a     *)
(* manifest of n features; it either succeeds or fails having kept nothing.*)
vmaf_unpickle_model(n) == <<"feature">> \o [i \in 1..n |-> FeatureName(i)]

(* model.c:9-48. k is the malloc that fails (1 the record, 2 the path, 3   *)
(* the name, 4 the locator string), 0 when none does. The locator string   *)
(* is released at line 32, as soon as svm_load_model has returned.         *)
vmaf_model_load_from_path ==
    /\ lpc = "call"
    /\ \E k \in 0..4 :
         LET rec == [path |-> IF k \in {0, 3, 4} THEN "path" ELSE NULL,
                     name |-> IF k \in {0, 4} THEN "name" ELSE NULL,
                     svm  |-> NULL, n_features |-> 0]
             svm == svm_load_model(cfg.path \o svm_path_suffix)
         IN
         IF k = 1 THEN
             /\ model' = NULL
             /\ UNCHANGED <<m, live, acquired, released>>
             /\ lret' = -ENOMEM
         ELSE IF k \in {2, 3, 4} THEN
             \* free_m / free_path / free_name
             /\ model' = "m"
             /\ m' = rec
             /\ acquired' = SubSeq(<<"m", "path", "name">>, 1, k - 1)
             /\ released' = FreeAll(released,
                    IF k = 2 THEN free_m ELSE IF k = 3 THEN free_path ELSE free_name)
             /\ UNCHANGED live
             /\ lret' = -ENOMEM
         ELSE IF svm = NULL THEN
             /\ model' = "m"
             /\ m' = rec
             /\ acquired' = <<"m", "path", "name", "svm_path">>
             /\ released' = FreeAll(released, <<"svm_path">> \o free_name)
             /\ UNCHANGED live
             /\ lret' = -ENOMEM
         ELSE IF ~manifest.ok THEN
             \* vmaf_unpickle_model failed: free_svm
             /\ model' = "m"
             /\ m' = rec
             /\ acquired' = <<"m", "path", "name", "svm_path", "svm">>
             /\ released' = FreeAll(released, <<"svm_path">> \o free_svm)
             /\ UNCHANGED live
             /\ lret' = -ENOMEM
         ELSE
             /\ model' = "m"
             /\ m' = [rec EXCEPT !.svm = svm, !.n_features = manifest.n_features]
             /\ acquired' = <<"m", "path", "name", "svm_path", "svm">>
                             \o vmaf_unpickle_model(manifest.n_features)
             /\ released' = FreeAll(released, <<"svm_path">>)
             /\ live' = {"m", "path", "name", "svm", "feature"}
                        \cup FeatureNames(manifest.n_features)
             /\ lret' = 0
    /\ lpc' = "returned"
    /\ UNCHANGED <<cfg, svm_files, manifest, mvars, cvars>>

(* model.c:50-60, on the handle the caller holds after the load. A handle  *)
(* to a released record reads indeterminate fields: any of the pointers    *)
(* the record held may be released again.                                  *)
vmaf_model_destroy ==
    /\ lpc = "returned"
    /\ IF model = NULL
       THEN UNCHANGED <<live, released>>
       ELSE IF "m" \in live
       THEN /\ released' = FreeAll(released,
                  <<m.path, m.name, m.svm>>
                  \o [i \in 1..m.n_features |-> FeatureName(i)]
                  \o <<"feature", "m">>)
            /\ live' = {}
       ELSE \E again \in SUBSET {"path", "name"} :
            /\ released' = FreeAll(released,
                  <<IF "path" \in again THEN m.path ELSE NULL,
                    IF "name" \in again THEN m.name ELSE NULL, "m">>)
            /\ UNCHANGED live
    /\ lpc' = "destroyed"
    /\ UNCHANGED <<cfg, svm_files, manifest, model, m, acquired, lret, mvars, cvars>>

(* ------------------------------ cli_parse.c ---------------------------- *)
(* An argument of -m is a string; it is kept as the tuple of its words and *)
(* of the delimiter characters between them.                               *)
delim == {"=", ":"}
Words == {"path", "name", "disable_clip", "enable_transform", "enable_ci", "m.pkl"}
OptArgs == UNION {[1..n -> Words \cup delim] : n \in 0..MaxArgLen}

(* model.config.h:4-9 *)
VMAF_MODEL_FLAG_DISABLE_CLIP == 1
VMAF_MODEL_FLAG_ENABLE_TRANSFORM == 2
VMAF_MODEL_FLAG_ENABLE_CONFIDENCE_INTERVAL == 4
(* cli_parse.c:99 names VMAF_MODEL_FLAGS_DEFAULT, which no file here       *)
(* defines; it is given the documented default, DisableClip set.           *)
VMAF_MODEL_FLAGS_DEFAULT == VMAF_MODEL_FLAG_DISABLE_CLIP

(* model_flags |= f, f a single bit. *)
SetFlag_Assign(flags, f) == f
SetFlag(flags, f) == IF (flags \div f) % 2 = 1 THEN flags ELSE flags + f
HasFlag(flags, f) == (flags \div f) % 2 = 1

(* The tokens successive calls of strtok(.., "=:") return: the maximal     *)
(* runs of non-delimiter characters, none of them empty.                   *)
RECURSIVE strtok(_, _)
strtok(str, tok) ==
    IF str = <<>> THEN (IF tok = "" THEN <<>> ELSE <<tok>>)
    ELSE IF Head(str) \in delim
         THEN (IF tok = "" THEN <<>> ELSE <<tok>>) \o strtok(Tail(str), "")
         ELSE strtok(Tail(str), tok \o Head(str))

UNINIT_PTR == "uninitialised"

(* cli_parse.c:101-118: the loop over the tokens; a value is the token     *)
(* after the key, NULL when the string ends there. usage() exits.          *)
RECURSIVE TokenLoop(_, _)
TokenLoop(toks, st) ==
    IF toks = <<>> THEN st
    ELSE LET token == Head(toks)
             rest == Tail(toks)
             value == IF rest = <<>> THEN NULL ELSE Head(rest)
             after == IF rest = <<>> THEN <<>> ELSE Tail(rest)
         IN IF token = "path"
            THEN TokenLoop(after, [st EXCEPT !.path_set = TRUE, !.model_path = value])
            ELSE IF token = "name"
            THEN TokenLoop(after, [st EXCEPT !.name_set = TRUE, !.model_name = value])
            ELSE IF token = "disable_clip"
            THEN TokenLoop(rest, [st EXCEPT !.model_flags =
                                     SetFlag(@, VMAF_MODEL_FLAG_DISABLE_CLIP)])
            ELSE IF token = "enable_transform"
            THEN TokenLoop(rest, [st EXCEPT !.model_flags =
                                     SetFlag(@, VMAF_MODEL_FLAG_ENABLE_TRANSFORM)])
            ELSE IF token = "enable_ci"
            THEN TokenLoop(rest, [st EXCEPT !.model_flags =
                                     SetFlag(@, VMAF_MODEL_FLAG_ENABLE_CONFIDENCE_INTERVAL)])
            ELSE [st EXCEPT !.usage = "Unknown parameter %s for model."]

UsageExit(reason) == [NoResult EXCEPT !.outcome = "usage", !.reason = reason]
Failed(ptr) == [NoResult EXCEPT !.outcome = "ENOMEM", !.ret = -ENOMEM, !.cfg = ptr,
                                !.fault = "malloc"]
Produced(path, name, flags) ==
    [NoResult EXCEPT !.outcome = "ok", !.cfg = "c",
                     !.c = [path |-> path, name |-> name, flags |-> flags]]
(* strlen on a null pointer: the process is killed, or the read at address *)
(* 0 finds an empty string and the call goes on.                           *)
NullDeref(path, name, flags) ==
    {[NoResult EXCEPT !.outcome = "SIGSEGV", !.fault = "null"],
     [Produced(path, name, flags) EXCEPT !.fault = "null"]}
(* strcpy into the null pointer of a failed malloc kills the process. *)
NullCopy == {[NoResult EXCEPT !.outcome = "SIGSEGV", !.fault = "malloc"]}

(* cli_parse.c:82-149; the set of outcomes for the argument arg. k is the  *)
(* malloc that fails (1 the config, 2 its path, 3 its name, 4 the copy of  *)
(* the argument), 0 when none does.                                        *)
parse_model_config(arg, model_cnt, k) ==
    IF k = 4 THEN NullCopy
    ELSE
    LET st == TokenLoop(strtok(arg, ""),
                        [path_set |-> FALSE, name_set |-> FALSE,
                         model_path |-> UNINIT_PTR, model_name |-> UNINIT_PTR,
                         model_flags |-> VMAF_MODEL_FLAGS_DEFAULT,
                         usage |-> NO_USAGE])
        model_name == IF st.name_set THEN st.model_name
                      ELSE "custom_vmaf_" \o Digits[model_cnt + 1]
    IN IF st.usage # NO_USAGE THEN {UsageExit(st.usage)}
       ELSE IF ~st.path_set THEN {UsageExit("For every model, path needs to be set.")}
       ELSE IF k = 1 THEN {Failed(NULL)}
       ELSE IF st.model_path = NULL THEN NullDeref("", model_name, st.model_flags)
       ELSE IF k = 2 THEN {Failed("freed")}
       ELSE IF model_name = NULL THEN NullDeref(st.model_path, "", st.model_flags)
       ELSE IF k = 3 THEN {Failed("freed")}
       ELSE {Produced(st.model_path, model_name, st.model_flags)}

(* ---- parse_model_config on every argument ---- *)
InitParse ==
    /\ optarg \in OptArgs
    /\ parsed = NoResult /\ ppc = "call"
    /\ settings = <<>> /\ argi = 0 /\ given = <<>> /\ stored_oob = FALSE
    /\ cpc = "idle" /\ exit_status = 0 /\ usage_reason = NO_USAGE
    /\ MotionIdle /\ LoaderIdle

call_parse_model_config ==
    /\ ppc = "call"
    /\ \E k \in 0..4 : parsed' \in parse_model_config(optarg, 0, k)
    /\ ppc' = "done"
    /\ UNCHANGED <<mvars, lvars, settings, argi, given, stored_oob, cpc,
                   exit_status, usage_reason, optarg>>

(* ---- cli_parse ---- *)
OptionLetters == {"r", "d", "m", "o", "x", "t", "f", "i", "n", "v", "?"}
CliModelArgs == {<<"path", "=", "m.pkl">>,
                 <<"path", "=", "m.pkl", ":", "enable_ci">>,
                 <<"name", "=", "m.pkl">>,
                 <<"path">>}
CliThreadArgs == {<<"4">>, <<"x">>}
ArgsOf(o) ==
    IF o = "m" THEN CliModelArgs
    ELSE IF o = "t" THEN CliThreadArgs
    ELSE IF o \in {"x", "n", "v", "?"} THEN {<<>>}
    ELSE {<<"a">>}
Slots == 0..(CLI_SETTINGS_STATIC_ARRAY_LEN - 1)
NO_ARG == <<>>        \* a null char pointer in the settings

(* cli_parse.c:154: the settings are zeroed. *)
InitCli ==
    /\ settings = [y4m_path_ref |-> NO_ARG, y4m_path_dist |-> NO_ARG,
                   output_path |-> NO_ARG, output_fmt |-> 0,
                   model_config |-> [i \in Slots |-> [cfg |-> NULL, c |-> NO_CONFIG]],
                   model_cnt |-> 0,
                   feature |-> [i \in Slots |-> <<>>], feature_cnt |-> 0,
                   import_path |-> [i \in Slots |-> <<>>], import_cnt |-> 0,
                   thread_cnt |-> 0, no_prediction |-> FALSE]
    /\ argi = 0
    /\ given = [o \in {"m", "f", "i"} |-> 0]
    /\ stored_oob = FALSE
    /\ cpc = "getopt" /\ exit_status = 0 /\ usage_reason = NO_USAGE
    /\ optarg = <<>> /\ parsed = NoResult /\ ppc = "idle"
    /\ MotionIdle /\ LoaderIdle

(* array[idx] = v; a store past the end lands outside the array. *)
Store(array, idx, v) == IF idx \in Slots THEN [array EXCEPT ![idx] = v] ELSE array
(* cli_parse.c:172, 181, 188 *)
AtCapacity_Late(cnt) == cnt = CLI_SETTINGS_STATIC_ARRAY_LEN + 1
AtCapacity(cnt) == cnt = CLI_SETTINGS_STATIC_ARRAY_LEN
(* cli_parse.c:73-80 on a decimal argument: the value, or -1 for the call  *)
(* of error().                                                             *)
parse_unsigned(arg) ==
    IF arg # <<>> /\ \A i \in 1..Len(arg) : IsDigit(arg[i]) THEN atoi(arg, 0) ELSE -1

usage(reason) ==
    /\ cpc' = "exit" /\ exit_status' = 1 /\ usage_reason' = reason
    /\ UNCHANGED <<settings, stored_oob>>
Continue(s2, oob) ==
    /\ settings' = s2 /\ stored_oob' = (stored_oob \/ oob)
    /\ UNCHANGED <<cpc, exit_status, usage_reason>>

(* cli_parse.c:157-206: getopt_long returns the option o with argument     *)
(* arg, and the switch handles it.                                         *)
cli_getopt ==
    /\ cpc = "getopt"
    /\ argi < MaxOpts
    /\ argi' = argi + 1
    /\ \E o \in OptionLetters : \E arg \in ArgsOf(o) :
         /\ given' = IF o \in {"m", "f", "i"} THEN [given EXCEPT ![o] = @ + 1] ELSE given
         /\ CASE o = "r" -> Continue([settings EXCEPT !.y4m_path_ref = arg], FALSE)
              [] o = "d" -> Continue([settings EXCEPT !.y4m_path_dist = arg], FALSE)
              [] o = "o" -> Continue([settings EXCEPT !.output_path = arg], FALSE)
              [] o = "x" -> Continue([settings EXCEPT !.output_fmt = 1], FALSE)
              [] o = "m" ->
                   IF AtCapacity(settings.model_cnt)
                   THEN usage("A maximum of %d models is supported")
                   ELSE \E k \in 0..4 :
                        \E res \in parse_model_config(arg, settings.model_cnt, k) :
                          IF res.outcome = "usage" THEN usage(res.reason)
                          ELSE IF res.outcome = "SIGSEGV"
                          THEN /\ cpc' = "killed"
                               /\ UNCHANGED <<settings, stored_oob, exit_status,
                                              usage_reason>>
                          ELSE Continue(
                                 [settings EXCEPT
                                    !.model_config = Store(@, settings.model_cnt,
                                                          [cfg |-> res.cfg, c |-> res.c]),
                                    !.model_cnt = @ + 1],
                                 settings.model_cnt \notin Slots)
              [] o = "f" ->
                   IF AtCapacity(settings.feature_cnt)
                   THEN usage("A maximum of %d features is supported")
                   ELSE Continue(
                          [settings EXCEPT
                             !.feature = Store(@, settings.feature_cnt, arg),
                             !.feature_cnt = @ + 1],
                          settings.feature_cnt \notin Slots)
              [] o = "i" ->
                   IF AtCapacity(settings.import_cnt)
                   THEN usage("A maximum of %d imports is supported")
                   ELSE Continue(
                          [settings EXCEPT
                             !.import_path = Store(@, settings.import_cnt, arg),
                             !.import_cnt = @ + 1],
                          settings.import_cnt \notin Slots)
              [] o = "t" ->
                   IF parse_unsigned(arg) < 0
                   THEN usage("Invalid argument \"%s\" for option %s; should be %s")
                   ELSE Continue([settings EXCEPT !.thread_cnt = parse_unsigned(arg)],
                                 FALSE)
              [] o = "n" -> Continue([settings EXCEPT !.no_prediction = TRUE], FALSE)
              [] o = "v" -> /\ cpc' = "exit" /\ exit_status' = 0
                            /\ UNCHANGED <<settings, stored_oob, usage_reason>>
              [] OTHER   -> Continue(settings, FALSE)
    /\ UNCHANGED <<mvars, lvars, optarg, parsed, ppc>>

(* cli_parse.c:208-215: getopt_long returns -1. Line 212 tests the         *)
(* reference path a second time.                                           *)
cli_finish ==
    /\ cpc = "getopt"
    /\ IF settings.y4m_path_ref = NO_ARG
       THEN usage("Reference .y4m (-r/--reference) is required")
       ELSE IF settings.model_cnt = 0 /\ ~settings.no_prediction
       THEN usage("At least one model file (-m/--model) is required")
       ELSE /\ cpc' = "returned"
            /\ settings' = [settings EXCEPT !.output_fmt = 1]
            /\ UNCHANGED <<stored_oob, exit_status, usage_reason>>
    /\ UNCHANGED <<mvars, lvars, argi, given, optarg, parsed, ppc>>

Init == InitMotion /\ LoaderIdle /\ CliIdle
Next == Enter \/ ScanIter \/ GapSetup \/ OuterStep \/ InnerStep \/ Cleanup
Spec == Init /\ [][Next]_vars

InitAnyInput == InitWide /\ LoaderIdle /\ CliIdle
SpecWide == InitAnyInput /\ [][Next]_vars

NextLoad == vmaf_model_load_from_path \/ vmaf_model_destroy
SpecLoad == InitLoad /\ [][NextLoad]_vars

NextCli == cli_getopt \/ cli_finish
SpecCli == InitCli /\ [][NextCli]_vars

NextParse == call_parse_model_config
SpecParse == InitParse /\ [][NextParse]_vars

(* ----------------------- the search as a function ---------------------- *)
(* The score motion.c:368 gives the pair (b, c) when both seeks succeed.   *)
PairScore(b, c) ==
    compute_motion(Blur(frames[FrameAt(SeekOffset(b)) + 1]),
                   Blur(frames[FrameAt(SeekOffset(c)) + 1]),
                   w, h, stride, stride, 0, valid_coord_index, cells_to_compare)[2]

(* motion.c:347-400 run to completion on error-free seeks in mode md:      *)
(* <<min, min_lower_idx, min_upper_idx>> of the final line.                *)
RECURSIVE InnerLoop(_, _, _, _, _)
InnerLoop(md, b, c, cend, best) ==
    IF c < cend
    THEN InnerLoop(md, b, CAdvance(md, c), cend,
                   IF Improves(PairScore(b, c), best[1])
                   THEN <<PairScore(b, c), b, c>> ELSE best)
    ELSE best

RECURSIVE OuterLoop(_, _, _)
OuterLoop(md, b, best) ==
    IF b < b_end
    THEN OuterLoop(md, BAdvance(md, b),
                   InnerLoop(md, b, CStart(b, min_frame_gap),
                             CEnd(b, max_frame_gap, global_frm_idx), best))
    ELSE best

gap_search(md) == OuterLoop(md, 0, <<NO_MIN, 0, InitUpper(global_frm_idx)>>)

(* ------------------------------ vocabulary ----------------------------- *)
Returned == pc = "done"
SearchRan == \A i \in 1..4 : alloced[GapBufs[i]]
SearchEnded == Returned /\ SearchRan
NoSeekError == err_mark = <<>>
frameCount == global_frm_idx
Admissible ==
    {p \in (0..(frameCount - 1)) \X (0..(frameCount - 1)) :
        min_frame_gap <= p[2] - p[1] /\ p[2] - p[1] < max_frame_gap}
IsRamp == \A k \in 1..Len(frames) : frames[k] = ConstPlane(k - 1)
LastLine == out[Len(out)]

(* ------------------------------- claims -------------------------------- *)

(* C1: when motion() has returned, every buffer that was allocated has     *)
(* been released exactly once, whichever exit path was taken.              *)
C1_ReleasedExactlyOnce ==
    Returned => \A b \in BufNames : freed[b] = (IF alloced[b] THEN 1 ELSE 0)

(* C2: after a seek of the gap search reported an error no further pair is *)
(* scored, no further line is printed, and motion() returns the error.     *)
C2_SeekErrorAborts ==
    ~NoSeekError =>
        /\ Len(evals) = err_mark[1]
        /\ Len(out) = err_mark[2]
        /\ (Returned => ret = 1)

(* C3 as stated: with no admissible pair the search reports no             *)
(* (score, lower_index, upper_index) value.                                *)
C3_NoCandidateNoResult ==
    (SearchEnded /\ Admissible = {}) => out = <<>>

(* C3 amended: with no admissible pair the search scores nothing, prints   *)
(* no improvement line and prints exactly one final line, which holds the  *)
(* sentinel score -1.0 with the indices 0 and frameCount - 1.              *)
C3_NoCandidateWholeVideo ==
    (SearchEnded /\ Admissible = {}) =>
        /\ evals = <<>>
        /\ out = << <<-1, 0, frameCount - 1>> >>

C3_Witness ==
    /\ SearchEnded /\ Admissible = {} /\ Len(frames) >= 2
    /\ out = << <<-1, 0, frameCount - 1>> >>

(* C4: in AllLocalFrames mode a completed search with an admissible pair   *)
(* ends on a pair inside the gap bounds and the frame count, whose score   *)
(* is at most the score of every admissible pair.                          *)
C4_LocalSearchMinimal ==
    (SearchEnded /\ NoSeekError /\ mode = "ALL_LOCAL_FRAMES" /\ Admissible # {}) =>
        /\ LastLine = <<min, min_lower_idx, min_upper_idx>>
        /\ 0 <= min_lower_idx
        /\ min_frame_gap <= min_upper_idx - min_lower_idx
        /\ min_upper_idx - min_lower_idx < max_frame_gap
        /\ min_upper_idx < frameCount
        /\ \A p \in Admissible : min <= PairScore(p[1], p[2])

C4_Witness ==
    /\ SearchEnded /\ NoSeekError /\ mode = "ALL_LOCAL_FRAMES"
    /\ \E p \in Admissible : min < PairScore(p[1], p[2])
    /\ \E p \in Admissible : p[1] + max_frame_gap < frameCount
    /\ min_lower_idx > 0

(* C5: the best pair is replaced only by a strictly smaller score, so at   *)
(* every moment it is the first scored pair, in the order b ascending then *)
(* c ascending, among those with the smallest score.                       *)
C5_FirstMinimalKept ==
    /\ \A i \in 1..(Len(evals) - 1) :
          \/ evals[i][1] < evals[i + 1][1]
          \/ evals[i][1] = evals[i + 1][1] /\ evals[i][2] < evals[i + 1][2]
    /\ evals # <<>> =>
          \E i \in 1..Len(evals) :
             /\ evals[i] = <<min_lower_idx, min_upper_idx, min>>
             /\ \A j \in 1..Len(evals) :
                   /\ evals[j][3] >= min
                   /\ (evals[j][3] = min => i <= j)

C5_Witness ==
    /\ SearchEnded
    /\ \E i, j \in 1..Len(evals) :
          i < j /\ evals[i][3] = min /\ evals[j][3] = min
    /\ evals[1][3] > min

(* C6 as stated: every line the search prints has lower_index below        *)
(* upper_index.                                                            *)
C6_LowerBelowUpper ==
    \A i \in 1..Len(out) : out[i][2] < out[i][3]

(* C6 amended: every improvement line has lower_index below upper_index,   *)
(* and so has the final line unless the frame count is 1, where the final  *)
(* line is -1.0,0,0.                                                       *)
C6_LowerBelowUpperOrSingle ==
    \A i \in 1..Len(out) :
        \/ out[i][2] < out[i][3]
        \/ /\ frameCount = 1 /\ i = Len(out) /\ SearchRan /\ pc \in {"fail_or_end", "done"}
           /\ out[i] = <<-1, 0, 0>>

C6_Witness ==
    /\ SearchEnded /\ Len(out) >= 3
    /\ \A i \in 1..Len(out) : out[i][2] < out[i][3]

(* C7: on a source whose frame k has every pixel equal to k, with gap      *)
(* bounds 0 < min_frame_gap < max_frame_gap and more frames than           *)
(* min_frame_gap, a completed search reports the pair (0, min_frame_gap)   *)
(* and no other, in both modes.                                            *)
C7_RampReportsFirstPair ==
    (/\ SearchEnded /\ NoSeekError /\ IsRamp
     /\ 0 < min_frame_gap /\ min_frame_gap < max_frame_gap
     /\ Len(frames) > min_frame_gap) =>
        /\ Len(out) = 2
        /\ \A i \in 1..2 : out[i][2] = 0 /\ out[i][3] = min_frame_gap
        /\ <<min_lower_idx, min_upper_idx>> = <<0, min_frame_gap>>

C7_Witness ==
    /\ SearchEnded /\ NoSeekError /\ IsRamp /\ mode = "ALL_FRAMES"
    /\ Len(evals) >= 4 /\ min > 0
    /\ <<min_lower_idx, min_upper_idx>> = <<0, min_frame_gap>>

(* C8: the best score of a completed AllFrames search is at least the best *)
(* score the AllLocalFrames search reports on the same frames and bounds.  *)
C8_CoarseAtLeastExhaustive ==
    (SearchEnded /\ NoSeekError /\ mode = "ALL_FRAMES") =>
        min >= gap_search("ALL_LOCAL_FRAMES")[1]

C8_Witness ==
    /\ SearchEnded /\ NoSeekError /\ mode = "ALL_FRAMES"
    /\ min > gap_search("ALL_LOCAL_FRAMES")[1]
    /\ gap_search("ALL_LOCAL_FRAMES")[1] >= 0

(* C9: a source of exactly one frame gets the sequential score 0 for that  *)
(* frame and the gap search scores no pair.                                *)
C9_OneFrame ==
    Len(frames) = 1 =>
        /\ evals = <<>>
        /\ seq_scores \in {<<>>, <<0>>}
        /\ (pc \in {"gap", "outer", "inner"} \/ SearchEnded) => seq_scores = <<0>>

C9_Witness ==
    /\ Len(frames) = 1 /\ SearchEnded /\ seq_scores = <<0>>
    /\ evals = <<>> /\ Len(out) = 1

(* C10: after a failed vmaf_model_load_from_path the caller's handle       *)
(* refers to no asset record.                                              *)
C10_NoAssetAfterFailure ==
    (lpc = "returned" /\ lret # 0) => model = NULL

(* C14: when the restriction file cannot be opened, every pair the search  *)
(* scores gets the score of the comparison of all w * h pixels.            *)
FullPlaneScore(b, c) ==
    compute_motion(Blur(frames[FrameAt(SeekOffset(b)) + 1]),
                   Blur(frames[FrameAt(SeekOffset(c)) + 1]),
                   w, h, stride, stride, 0, 0, NO_CELLS)[2]

C14_UnopenableFileUnrestricted ==
    (/\ motion_map_filen # NULL /\ FileText(motion_map_filen) = ENOENT
     /\ NoSeekError) =>
        \A i \in 1..Len(evals) :
            evals[i][3] = FullPlaneScore(evals[i][1], evals[i][2])

(* ------------------------- vocabulary of the loader -------------------- *)
Range(s) == {s[i] : i \in 1..Len(s)}
Count(s, r) == Cardinality({i \in 1..Len(s) : s[i] = r})
Reverse(s) == [i \in 1..Len(s) |-> s[Len(s) + 1 - i]]
Without(s, r) == SelectSeq(s, LAMBDA x : x # r)
LoadFailed == lpc = "returned" /\ lret # 0
(* What made the load fail, read off what had been acquired by then. *)
FailedAt ==
    IF "svm" \in Range(acquired) THEN "vmaf_unpickle_model"
    ELSE IF "svm_path" \in Range(acquired) THEN "svm_load_model"
    ELSE "malloc"
(* The resources a PredictorAsset owns. *)
Owned == {"m", "path", "name", "svm", "feature"} \cup FeatureNames(MaxFeatures)

(* C11 as stated: after a failed load the resources acquired by the steps  *)
(* before the failing one have been released exactly once, in the reverse  *)
(* of the order of their acquisition.                                      *)
C11_RollbackReverseOrder ==
    LoadFailed => released = Reverse(acquired)

(* C11 amended: after a failed load every resource acquired has been       *)
(* released exactly once; the locator string is released first, the others *)
(* in the reverse of the order of their acquisition, the numerical         *)
(* predictor included when the manifest failed to deserialize.             *)
C11_RollbackOrdered ==
    LoadFailed =>
        /\ Len(released) = Len(acquired)
        /\ \A r \in Range(acquired) : Count(released, r) = 1
        /\ Without(released, "svm_path") = Reverse(Without(acquired, "svm_path"))
        /\ "svm_path" \in Range(acquired) => released[1] = "svm_path"

C11_Witness ==
    /\ LoadFailed /\ FailedAt = "vmaf_unpickle_model"
    /\ released = <<"svm_path", "svm", "name", "path", "m">>

(* C12: after a load and one vmaf_model_destroy on the handle the caller   *)
(* holds, every owned resource that was acquired has been released exactly *)
(* once and none that was not acquired has been released; in particular a  *)
(* null handle releases nothing.                                           *)
C12_DestroyReleasesOnce ==
    lpc = "destroyed" =>
        \A r \in Owned : Count(released, r) = (IF r \in Range(acquired) THEN 1 ELSE 0)

(* C13: a load that failed in svm_load_model or in vmaf_unpickle_model     *)
(* returns a value other than the one an allocation failure returns.       *)
C13_ErrorsDistinguished ==
    (LoadFailed /\ FailedAt # "malloc") => lret # -ENOMEM

(* C18: a completed search in mode AllFrames (s = 4) or AllLocalFrames     *)
(* (s = 1) has scored exactly the pairs (b, c) with b a multiple of s,     *)
(* 0 <= b < frameCount - min_frame_gap, c - b - min_frame_gap a multiple   *)
(* of s and b + min_frame_gap <= c < min(frameCount, b + max_frame_gap),   *)
(* frameCount being the number of frames the sequential scan read; each    *)
(* once, in the order b ascending, then c ascending.                       *)
KnownMode == mode \in {"ALL_FRAMES", "ALL_LOCAL_FRAMES"}
Stride == IF mode = "ALL_FRAMES" THEN 4 ELSE 1
FramesRead == srcpos
WindowPairs ==
    {p \in (0..FramesRead) \X (0..FramesRead) :
        /\ p[1] % Stride = 0
        /\ p[1] < FramesRead - min_frame_gap
        /\ p[1] + min_frame_gap <= p[2]
        /\ (p[2] - p[1] - min_frame_gap) % Stride = 0
        /\ p[2] < FramesRead
        /\ p[2] < p[1] + max_frame_gap}
PairOf(e) == <<e[1], e[2]>>

C18_PairsSearched ==
    (SearchEnded /\ KnownMode) =>
        /\ {PairOf(evals[i]) : i \in 1..Len(evals)} = WindowPairs
        /\ Len(evals) = Cardinality(WindowPairs)
        /\ \A i \in 1..(Len(evals) - 1) :
              \/ evals[i][1] < evals[i + 1][1]
              \/ evals[i][1] = evals[i + 1][1] /\ evals[i][2] < evals[i + 1][2]

C18_Witness ==
    /\ SearchEnded /\ mode = "ALL_FRAMES"
    /\ \E i \in 1..Len(evals) : evals[i][1] = 4 /\ evals[i][2] = 4 + min_frame_gap + 4
    /\ max_frame_gap < FramesRead
    /\ Cardinality(WindowPairs) >= 6

(* C19: in the two search modes a line is printed for a scored pair        *)
(* exactly when its score is below every score before it (or it is the     *)
(* first), so the scores of the improvement lines strictly decrease; a     *)
(* completed search has printed one more line, and when a pair was scored  *)
(* that line repeats the last improvement line.                            *)
RECURSIVE StrictImprovements(_, _, _)
StrictImprovements(es, i, best) ==
    IF i > Len(es) THEN <<>>
    ELSE IF best = <<>> \/ es[i][3] < best[1]
         THEN << <<es[i][3], es[i][1], es[i][2]>> >>
              \o StrictImprovements(es, i + 1, <<es[i][3]>>)
         ELSE StrictImprovements(es, i + 1, best)
FinalLinePrinted == SearchRan /\ pc \in {"fail_or_end", "done"}
NumImprovementLines == IF FinalLinePrinted THEN Len(out) - 1 ELSE Len(out)
ImprovementLines == SubSeq(out, 1, NumImprovementLines)

C19_LinePerStrictImprovement ==
    KnownMode =>
        /\ ImprovementLines = StrictImprovements(evals, 1, <<>>)
        /\ \A i \in 1..(NumImprovementLines - 1) : out[i + 1][1] < out[i][1]
        /\ (FinalLinePrinted /\ evals # <<>>) => LastLine = out[Len(out) - 1]

C19_Witness ==
    /\ SearchEnded /\ Len(out) >= 4
    /\ Len(evals) > Len(out)
    /\ LastLine = out[Len(out) - 1]

(* C20: whenever the gap search runs, the bounds it derived from fps       *)
(* satisfy 0 < min_frame_gap < max_frame_gap.                              *)
GapSearchRunning == SearchRan /\ pc \in {"outer", "inner", "fail_or_end", "done"}
C20_GapBoundsOrdered ==
    GapSearchRunning => (0 < min_frame_gap /\ min_frame_gap < max_frame_gap)

(* ------------------------ vocabulary of cli_parse ---------------------- *)
ARRAY_LEN == CLI_SETTINGS_STATIC_ARRAY_LEN
CliRunning == cpc # "idle"
MaximumReason(o) ==
    IF o = "m" THEN "A maximum of %d models is supported"
    ELSE IF o = "f" THEN "A maximum of %d features is supported"
    ELSE "A maximum of %d imports is supported"
CountOf(o) ==
    IF o = "m" THEN settings.model_cnt
    ELSE IF o = "f" THEN settings.feature_cnt
    ELSE settings.import_cnt
FlagTokens == {"disable_clip", "enable_transform", "enable_ci"}
(* A token string in which every key is known and path and name are each   *)
(* followed by a value.                                                    *)
RECURSIVE WellFormed(_)
WellFormed(toks) ==
    \/ toks = <<>>
    \/ /\ Head(toks) \in {"path", "name"} /\ Len(toks) >= 2
       /\ WellFormed(Tail(Tail(toks)))
    \/ /\ Head(toks) \in FlagTokens
       /\ WellFormed(Tail(toks))
(* The keys of a token string, the values of path and name passed over. *)
RECURSIVE Keys(_)
Keys(toks) ==
    IF toks = <<>> THEN {}
    ELSE IF Head(toks) \in {"path", "name"}
         THEN {Head(toks)} \cup Keys(IF Len(toks) >= 2 THEN Tail(Tail(toks)) ELSE <<>>)
         ELSE {Head(toks)} \cup Keys(Tail(toks))
ParseReturned == ppc = "done"
ConfigProduced == ParseReturned /\ parsed.outcome = "ok"

(* C15: while cli_parse runs, model_cnt, feature_cnt and import_cnt are at *)
(* most the array length and no entry has been stored past the end of an   *)
(* array; as long as cli_parse has not exited every -m, -f and -i option   *)
(* returned so far has been stored, and once more of one kind were given   *)
(* than the array holds, cli_parse has exited with status 1 on the usage   *)
(* message for that maximum.                                               *)
C15_CountsBounded ==
    CliRunning =>
        /\ \A o \in {"m", "f", "i"} : CountOf(o) <= ARRAY_LEN
        /\ ~stored_oob
        /\ cpc \in {"getopt", "returned"} =>
              \A o \in {"m", "f", "i"} : CountOf(o) = given[o]
        /\ \A o \in {"m", "f", "i"} :
              given[o] > ARRAY_LEN =>
                 /\ cpc = "exit" /\ exit_status = 1
                 /\ usage_reason = MaximumReason(o)

C15_Witness ==
    /\ cpc = "exit" /\ exit_status = 1
    /\ usage_reason = MaximumReason("f")
    /\ given["f"] = ARRAY_LEN + 1 /\ settings.feature_cnt = ARRAY_LEN
    /\ settings.model_cnt = 1

(* C16: when no allocation fails, parse_model_config ends in the usage     *)
(* error for every token string that is not well formed or has no path     *)
(* key, and every config it produces has a non-empty path.                 *)
C16_ConfigOnlyWithPath ==
    ParseReturned =>
        /\ (/\ ~(/\ WellFormed(strtok(optarg, ""))
                 /\ "path" \in Keys(strtok(optarg, "")))
            /\ parsed.fault # "malloc") => parsed.outcome = "usage"
        /\ parsed.outcome = "ok" => parsed.c.path \notin {"", NULL}

(* C17: every config parse_model_config produces has DisableClip set, and  *)
(* has EnableTransform set exactly when enable_transform is one of the     *)
(* keys of the token string and EnableConfidenceInterval set exactly when  *)
(* enable_ci is.                                                           *)
C17_DefaultAndOwnFlags ==
    ConfigProduced =>
        /\ parsed.c.flags \in 0..7
        /\ HasFlag(parsed.c.flags, VMAF_MODEL_FLAG_DISABLE_CLIP)
        /\ HasFlag(parsed.c.flags, VMAF_MODEL_FLAG_ENABLE_TRANSFORM)
              <=> "enable_transform" \in Keys(strtok(optarg, ""))
        /\ HasFlag(parsed.c.flags, VMAF_MODEL_FLAG_ENABLE_CONFIDENCE_INTERVAL)
              <=> "enable_ci" \in Keys(strtok(optarg, ""))

C17_Witness ==
    /\ ConfigProduced /\ parsed.fault = "none"
    /\ parsed.c.path = "m.pkl"
    /\ parsed.c.flags = VMAF_MODEL_FLAG_DISABLE_CLIP
                        + VMAF_MODEL_FLAG_ENABLE_CONFIDENCE_INTERVAL
    /\ "disable_clip" \notin Keys(strtok(optarg, ""))

(* ----------------------- the loops of the gap search ------------------- *)
(* C21: for every frame count, frame rate and mode string, every           *)
(* iteration of the inner loop increases c_idx and every iteration of the  *)
(* outer loop increases b_idx, so the search ends after finitely many      *)
(* pairs.                                                                  *)
C21_IndicesAdvance ==
    [][/\ (pc = "inner" /\ Len(evals') = Len(evals) + 1) => c_idx' > c_idx
       /\ (pc = "inner" /\ pc' = "outer") => b_idx' > b_idx]_vars

(* --------------------------- the sequential scan ----------------------- *)
(* The scan loop has just been left through a break (motion.c:208, 263).   *)
ScanCompleted == pc = "gap"
(* The full-plane score of frame k against frame k - 1, frames counted     *)
(* from 0 (motion.c:236-237).                                              *)
SeqScore(k) ==
    compute_motion(Blur(frames[k]), Blur(frames[k + 1]),
                   w, h, stride, stride, 0, 0, NO_CELLS)[2]

(* C22 as stated: over a source of N >= 1 frames the scan pulls every      *)
(* frame once and in order, produces N scores, the first 0 and the score   *)
(* of every later frame k computed between blurred frames k - 1 and k.     *)
C22_ScanScoresNeighbours ==
    (ScanCompleted /\ Len(frames) >= 1) =>
        /\ FramesRead = Len(frames)
        /\ Len(seq_scores) = Len(frames)
        /\ seq_scores[1] = 0
        /\ \A k \in 1..(Len(frames) - 1) : seq_scores[k + 1] = SeqScore(k)

(* C22 amended: the scores are those of neighbouring blurred frames when   *)
(* no restriction file is configured; with one, the scan computes no score *)
(* and every score is the initial 0.                                       *)
C22_ScanScores ==
    (ScanCompleted /\ Len(frames) >= 1) =>
        /\ FramesRead = Len(frames)
        /\ Len(seq_scores) = Len(frames)
        /\ seq_scores[1] = 0
        /\ \A k \in 1..(Len(frames) - 1) :
              seq_scores[k + 1] = IF motion_map_filen = NULL THEN SeqScore(k) ELSE 0

C22_Witness ==
    /\ ScanCompleted /\ Len(frames) >= 3 /\ motion_map_filen = NULL
    /\ seq_scores[2] > 0 /\ seq_scores[3] > 0 /\ seq_scores[2] # seq_scores[3]
    /\ seq_scores[3] = SeqScore(2)

(* --------------------------- the value returned ------------------------ *)
(* The planes the run needed were allocated (motion.c:170-196, 296-315);   *)
(* the scan left its loop on the end of the stream, not on an error of the *)
(* frame source or of compute_motion: every frame has its score, or the    *)
(* first read of an empty source reported the end (motion.c:202-208); no   *)
(* seek of the search failed.                                              *)
ErrorFree ==
    /\ \A i \in 1..6 : alloced[PrimaryBufs[i]]
    /\ motion_map_filen # NULL => SearchRan
    /\ IF Len(frames) = 0 THEN global_frm_idx = 1 /\ ret = 2
       ELSE Len(seq_scores) = Len(frames)
    /\ NoSeekError

(* C23: motion() returns 0 whenever the run completes with no error of     *)
(* the frame source, of an allocation or of the scoring, for every frame   *)
(* count and with or without a restriction file.                           *)
C23_ReturnsZeroWithoutError == (Returned /\ ErrorFree) => ret = 0

(* ----------------------------- the cell list --------------------------- *)
(* C24: whatever the restriction file holds, no more than width * height   *)
(* cell indices are stored, and every index restricted scoring addresses   *)
(* a pixel with lies in [0, width * height). The array is filled at        *)
(* motion.c:290 and used by every pair scored (motion.c:368).              *)
C24_CellsWithinPlane ==
    /\ cells_to_compare # NO_CELLS => valid_coord_index <= w * h
    /\ (cells_to_compare # NO_CELLS /\ evals # <<>>) =>
          ~StrayCells(cells_to_compare, valid_coord_index, w, h)
====
